---- MODULE Spec2Model ----
(***************************************************************************)
(* Segmentation, classification and figure-caption merge engine of         *)
(* agent/TermETActionIDataPreparer_V5.py (process_book and its helpers).   *)
(*                                                                         *)
(* A text is a sequence of Unicode code points; a Python str method or     *)
(* regular expression is an operator over such sequences.  None is the     *)
(* tuple <<-1>>, which is no text because -1 is no code point.             *)
(***************************************************************************)
EXTENDS Integers, Sequences, FiniteSets, TLC

(* ---------------------------------------------------------------------- *)
(* Bounds of the model                                                    *)
(* ---------------------------------------------------------------------- *)
(* pages of the document *)
MaxPages == 4

(* ---------------------------------------------------------------------- *)
(* Python str and re primitives                                           *)
(* ---------------------------------------------------------------------- *)
None == <<-1>>

(* bool(v) of an Optional[str] *)
Truthy(v) == v # None /\ v # <<>>

(* str.isspace() code points: what str.strip(), str.split() and \s use *)
Whitespace ==
    {9, 10, 11, 12, 13, 28, 29, 30, 31, 32, 133, 160, 5760, 8232, 8233, 8239, 8287, 12288}
        \cup (8192 .. 8202)

(* \d restricted to the digits of the modelled texts *)
Digit == 48 .. 57

SetMin(S) == CHOOSE m \in S : \A x \in S : m <= x

SetMax(S) == CHOOSE m \in S : \A x \in S : x <= m

(* str.strip() *)
strip(s) ==
    LET keep == {i \in 1 .. Len(s) : s[i] \notin Whitespace}
    IN  IF keep = {} THEN <<>> ELSE SubSeq(s, SetMin(keep), SetMax(keep))

(* re.IGNORECASE on the ASCII letters of a pattern *)
Lower(s) == [i \in 1 .. Len(s) |-> IF s[i] \in 65 .. 90 THEN s[i] + 32 ELSE s[i]]

(* s[i-1:] starts with w (i is 1-based) *)
StartsAt(s, i, w) == i >= 1 /\ i + Len(w) - 1 <= Len(s) /\ SubSeq(s, i, i + Len(w) - 1) = w

(* `w in s` *)
Contains(s, w) == \E i \in 1 .. (Len(s) - Len(w) + 1) : SubSeq(s, i, i + Len(w) - 1) = w

(* any(w in s for w in ws) *)
ContainsAny(s, ws) == \E k \in 1 .. Len(ws) : Contains(s, ws[k])

(* last index of the longest run of code points of C that starts at i; i - 1 when empty *)
RunEnd(s, i, C) ==
    LET stop == {j \in i .. Len(s) : s[j] \notin C}
    IN  IF stop = {} THEN (IF i <= Len(s) THEN Len(s) ELSE i - 1) ELSE SetMin(stop) - 1

(* len(s.split()): the number of maximal runs of non-whitespace *)
SplitCount(s) ==
    Cardinality({i \in 1 .. Len(s) : s[i] \notin Whitespace /\ (i = 1 \/ s[i - 1] \in Whitespace)})

(* s.split("\n") *)
RECURSIVE SplitNewline(_)
SplitNewline(s) ==
    LET nl == {i \in 1 .. Len(s) : s[i] = 10}
    IN  IF nl = {} THEN <<s>>
        ELSE <<SubSeq(s, 1, SetMin(nl) - 1)>> \o SplitNewline(SubSeq(s, SetMin(nl) + 1, Len(s)))

(* ---------------------------------------------------------------------- *)
(* Configuration and rule tables                                          *)
(* ---------------------------------------------------------------------- *)

(* BOOKS["日本蜡烛图技术"]["keywords"] *)
keywords ==
    << <<75, 32447>>, <<24418, 24577>>, <<20449, 21495>>, <<25351, 26631>>, <<22343,
       32447>>, <<31227, 21160, 24179, 22343, 32447>>, <<21453, 36716>>, <<31361, 30772>>,
       <<25903, 25745>>, <<38459, 21147>>, <<25104, 20132, 37327>>, <<20080, 20837>>,
       <<21334, 20986>>, <<22836, 32937, 39030>>, <<22836, 32937, 24213>>, <<38180, 23376,
       32447>>, <<21534, 27809, 24418, 24577>>, <<40644, 26127, 26143>>, <<26089, 26216,
       26143>>, <<21313, 23383, 26143>>, <<36339, 31354>>, <<32570, 21475>>, <<77, 65, 67,
       68>>, <<82, 83, 73>>, <<24067, 26519, 24102>>, <<67, 67, 73>>, <<83, 65, 82>>, <<79,
       66, 86>>, <<68, 77, 73>>, <<65, 84, 82>>, <<23454, 20307>>, <<24433, 32447>>,
       <<39030, 37096>>, <<24213, 37096>>, <<36235, 21183>>, <<19978, 28072>>, <<19979,
       36300>> >>

(* 形态 模型 K线 线图 指标 趋势 *)
SectionKeywords ==
    << <<24418, 24577>>, <<27169, 22411>>, <<75, 32447>>, <<32447, 22270>>, <<25351,
       26631>>, <<36235, 21183>> >>

(* 买入 卖出 信号 建议 触发 策略 *)
ActionKeywords ==
    << <<20080, 20837>>, <<21334, 20986>>, <<20449, 21495>>, <<24314, 35758>>, <<35302,
       21457>>, <<31574, 30053>> >>

(* 形态 模型 K线 指标 *)
TermKeywords ==
    << <<24418, 24577>>, <<27169, 22411>>, <<75, 32447>>, <<25351, 26631>> >>

(* 免责声明|版权所有|微信|扫码|www\.|http|大学|出版社|图表来源|技术支持 *)
Blocklist ==
    << <<20813, 36131, 22768, 26126>>, <<29256, 26435, 25152, 26377>>, <<24494, 20449>>,
       <<25195, 30721>>, <<119, 119, 119, 46>>, <<104, 116, 116, 112>>, <<22823, 23398>>,
       <<20986, 29256, 31038>>, <<22270, 34920, 26469, 28304>>, <<25216, 26415, 25903,
       25345>> >>

(* [一二三四五六七八九十百] *)
ChapterNumerals ==
    {19968, 20108, 19977, 22235, 20116, 20845, 19971, 20843, 20061, 21313, 30334}

(* [是为指称叫属于构成] *)
DefinitionCopula ==
    {26159, 20026, 25351, 31216, 21483, 23646, 20110, 26500, 25104}

(* config["source"] of the book: "日本蜡烛图技术" *)
source == <<26085, 26412, 34593, 28891, 22270, 25216, 26415>>

(* the labels returned by classify_type: "定义" "交易逻辑" "图注" "术语" "说明" *)
TypeDefinition == <<23450, 20041>>

TypeTradingLogic == <<20132, 26131, 36923, 36753>>

TypeFigureCaption == <<22270, 27880>>

TypeTerm == <<26415, 35821>>

TypeExplanation == <<35828, 26126>>

(* ---------------------------------------------------------------------- *)
(* Tool functions                                                         *)
(* ---------------------------------------------------------------------- *)
(* ^(第[一二三四五六七八九十百]+章)(\s|$)  or  ^CHAPTER\s+\d+  on text.strip() *)
extract_chapter_title(text) ==
    LET s == strip(text)
        e == RunEnd(s, 2, ChapterNumerals)
        w == RunEnd(s, 8, Whitespace)
        numbered == /\ Len(s) >= 3
                    /\ s[1] = 31532
                    /\ e >= 2
                    /\ e + 1 <= Len(s)
                    /\ s[e + 1] = 31456
                    /\ (e + 1 = Len(s) \/ s[e + 2] \in Whitespace)
        english == /\ StartsAt(Lower(s), 1, <<99, 104, 97, 112, 116, 101, 114>>)
                   /\ w >= 8
                   /\ w + 1 <= Len(s)
                   /\ s[w + 1] \in Digit
    IN  IF numbered \/ english THEN s ELSE None

extract_section_title(text) ==
    IF Len(strip(text)) <= 50 /\ ContainsAny(text, SectionKeywords) THEN strip(text) ELSE None

(* \d+(\.\d+)? from index i: the index of its last code point, i - 1 when it fails *)
FigureNumberEnd(s, i) ==
    LET e == RunEnd(s, i, Digit)
    IN  IF e < i THEN i - 1
        ELSE IF e + 2 <= Len(s) /\ s[e + 1] = 46 /\ s[e + 2] \in Digit
             THEN RunEnd(s, e + 2, Digit)
             ELSE e

(* (图\d+(\.\d+)?|Figure\s+\d+(\.\d+)?) anchored at index i: last index of the match, else 0 *)
FigureMatchEnd(s, low, i) ==
    IF s[i] = 22270
    THEN (IF FigureNumberEnd(s, i + 1) >= i + 1 THEN FigureNumberEnd(s, i + 1) ELSE 0)
    ELSE IF StartsAt(low, i, <<102, 105, 103, 117, 114, 101>>)
         THEN LET w == RunEnd(s, i + 6, Whitespace)
              IN  IF w >= i + 6 /\ FigureNumberEnd(s, w + 1) >= w + 1
                  THEN FigureNumberEnd(s, w + 1)
                  ELSE 0
         ELSE 0

extract_figure(text) ==
    LET low == Lower(text)
        hits == {i \in 1 .. Len(text) : FigureMatchEnd(text, low, i) > 0}
    IN  IF hits = {} THEN None
        ELSE SubSeq(text, SetMin(hits), FigureMatchEnd(text, low, SetMin(hits)))

(* re.match(r".*?[是为指称叫属于构成]+.*?一种.*?[形态模型结构]?", text) *)
DefinitionRule(text) ==
    \E j \in 2 .. (Len(text) - 1) :
        /\ text[j] = 19968
        /\ text[j + 1] = 31181
        /\ \E i \in 1 .. (j - 1) : text[i] \in DefinitionCopula
        /\ \A k \in 1 .. (j + 1) : text[k] # 10

(* variant: the figure rule is tested before the action keywords *)
classify_type_figurefirst(text) ==
    IF DefinitionRule(text) THEN TypeDefinition
    ELSE IF Truthy(extract_figure(text)) THEN TypeFigureCaption
    ELSE IF ContainsAny(text, ActionKeywords) THEN TypeTradingLogic
    ELSE IF Len(text) <= 60 /\ ContainsAny(text, TermKeywords) THEN TypeTerm
    ELSE TypeExplanation

classify_type(text) ==
    IF DefinitionRule(text) THEN TypeDefinition
    ELSE IF ContainsAny(text, ActionKeywords) THEN TypeTradingLogic
    ELSE IF Truthy(extract_figure(text)) THEN TypeFigureCaption
    ELSE IF Len(text) <= 60 /\ ContainsAny(text, TermKeywords) THEN TypeTerm
    ELSE TypeExplanation

(* variant: the length bounds are exclusive *)
is_valid_exclusive(text, kws) ==
    IF ~(15 < Len(text) /\ Len(text) < 500) THEN FALSE
    ELSE IF ~ContainsAny(text, kws) THEN FALSE
    ELSE IF ContainsAny(text, Blocklist) THEN FALSE
    ELSE IF (Len(text) >= 1 /\ text[Len(text)] = 65306) \/ SplitCount(text) < 2 THEN FALSE
    ELSE TRUE

is_valid(text, kws) ==
    IF ~(15 <= Len(text) /\ Len(text) <= 500) THEN FALSE
    ELSE IF ~ContainsAny(text, kws) THEN FALSE
    ELSE IF ContainsAny(text, Blocklist) THEN FALSE
    ELSE IF (Len(text) >= 1 /\ text[Len(text)] = 65306) \/ SplitCount(text) < 2 THEN FALSE
    ELSE TRUE

(* the paragraphs merge_lines yields, in order; paragraph and out are the generator's state *)
RECURSIVE merge_from(_, _, _, _)
merge_from(lines, paragraph, max_len, out) ==
    IF lines = <<>>
    THEN (IF paragraph # <<>> THEN Append(out, paragraph) ELSE out)
    ELSE LET joined == IF paragraph # <<>>
                       THEN paragraph \o <<32>> \o strip(Head(lines))
                       ELSE strip(Head(lines))
         IN  IF Len(joined) >= max_len
             THEN merge_from(Tail(lines), <<>>, max_len, Append(out, joined))
             ELSE merge_from(Tail(lines), joined, max_len, out)

(* variant: the paragraph left at the end of the lines is not yielded *)
merge_lines_noflush(lines, max_len) ==
    LET out == merge_from(lines, <<>>, max_len, <<>>)
    IN  IF out # <<>> /\ Len(out[Len(out)]) < max_len
        THEN SubSeq(out, 1, Len(out) - 1)
        ELSE out

merge_lines(lines, max_len) == merge_from(lines, <<>>, max_len, <<>>)

(* ---------------------------------------------------------------------- *)
(* The document: what page.get_text("blocks") can hold in field 4         *)
(* ---------------------------------------------------------------------- *)
(* "第一章 概述" *)
Line1 == <<31532, 19968, 31456, 32, 27010, 36848>>

(* "头肩顶是一种看跌反转形态，常见于趋势顶部区域。" *)
Line2 ==
    <<22836, 32937, 39030, 26159, 19968, 31181, 30475, 36300, 21453, 36716, 24418, 24577,
      65292, 24120, 35265, 20110, 36235, 21183, 39030, 37096, 21306, 22495, 12290>>

(* "图6.57 头肩顶示例" *)
Line3 == <<22270, 54, 46, 53, 55, 32, 22836, 32937, 39030, 31034, 20363>>

(* "如图所示，颈线突破确认了该形态的有效性。" *)
Line4 ==
    <<22914, 22270, 25152, 31034, 65292, 39048, 32447, 31361, 30772, 30830, 35748, 20102,
      35813, 24418, 24577, 30340, 26377, 25928, 24615, 12290>>

(* "图6.57 头肩顶的颈线被突破的示例" *)
CaptionA ==
    <<22270, 54, 46, 53, 55, 32, 22836, 32937, 39030, 30340, 39048, 32447, 34987, 31361,
      30772, 30340, 31034, 20363>>

(* "图6.58 头肩底的颈线被突破的示例" *)
CaptionB ==
    <<22270, 54, 46, 53, 56, 32, 22836, 32937, 24213, 30340, 39048, 32447, 34987, 31361,
      30772, 30340, 31034, 20363>>

(* "颈线被突破之后 价格通常会回抽确认" *)
ExplanationLine ==
    <<39048, 32447, 34987, 31361, 30772, 20043, 21518, 32, 20215, 26684, 36890, 24120,
      20250, 22238, 25277, 30830, 35748>>

(* the same line as a block with a trailing blank and a second, blank line *)
ExplanationBlock == ExplanationLine \o <<32, 10, 32>>

(* "头肩顶向下突破时 可以考虑卖出" *)
TradingLine ==
    <<22836, 32937, 39030, 21521, 19979, 31361, 30772, 26102, 32, 21487, 20197, 32771,
      34385, 21334, 20986>>

(* "第二章 头肩顶形态的定义与颈线突破": a chapter heading that also satisfies the section rule
   and is_valid *)
ChapterSectionLine ==
    <<31532, 20108, 31456, 32, 22836, 32937, 39030, 24418, 24577, 30340, 23450, 20041,
      19982, 39048, 32447, 31361, 30772>>

(* "头肩顶形态的特征 以及颈线的位置": a section heading that also satisfies is_valid *)
SectionValidLine ==
    <<22836, 32937, 39030, 24418, 24577, 30340, 29305, 24449, 32, 20197, 21450, 39048,
      32447, 30340, 20301, 32622>>

(* [line.strip() for block in blocks for line in block[4].split("\n") if line.strip()] *)
RECURSIVE page_lines(_)
page_lines(blocks) ==
    IF blocks = <<>> THEN <<>>
    ELSE LET ls == SplitNewline(Head(blocks))
             kept == SelectSeq(ls, LAMBDA l : strip(l) # <<>>)
         IN  [i \in 1 .. Len(kept) |-> strip(kept[i])] \o page_lines(Tail(blocks))

(* a page of eight blocks: merge_lines yields a paragraph of 135 code points at the seventh
   block and the eighth block as a second paragraph *)
LongPage ==
    <<CaptionA, CaptionB, ExplanationBlock, TradingLine, Line2, Line4, CaptionA, ExplanationBlock>>

(* the pages a document is made of, each the sequence of field 4 of its blocks *)
PagePool ==
    {<<Line1>>, <<Line2>>, <<Line3>>, <<Line4>>, <<CaptionA>>, <<CaptionB>>,
     <<ExplanationBlock>>, <<TradingLine>>, <<CaptionA, TradingLine>>, LongPage,
     <<ChapterSectionLine>>, <<SectionValidLine>>}

(* a page of a faulty supplier: field 4 of its second block is None, not a str *)
FaultyPage == <<ExplanationBlock, None>>

Range(f) == {f[i] : i \in DOMAIN f}

(* every paragraph a page of the pool yields *)
Paragraphs == UNION {Range(merge_lines(page_lines(pg), 120)) : pg \in PagePool}

(* the helpers' results per paragraph, evaluated once *)
Rules ==
    [p \in Paragraphs |->
        [chapter_title |-> extract_chapter_title(p),
         section_title |-> extract_section_title(p),
         valid |-> is_valid(p, keywords),
         fig |-> extract_figure(p),
         ptype |-> classify_type(p)]]

(* BOOKS["日本蜡烛图技术"], the keys process_book reads after the pdf path *)
ConfigOK == [keywords |-> keywords, source |-> source]

(* a config without the key "keywords" *)
ConfigMissing == [source |-> source]

(* a config whose "keywords" is None *)
ConfigInvalid == [keywords |-> None, source |-> source]

(* ---------------------------------------------------------------------- *)
(* process_book                                                           *)
(* ---------------------------------------------------------------------- *)
VARIABLES
    docs,          \* extract_data of V4: the pdf paths opened so far, the last is the current document
    config,        \* the config argument of process_book
    arg,           \* the text a direct call of classify_type is given
    ret,           \* what that call returned, None before it returns
    pc,            \* "run": in the page loop; "done": file written; "aborted": exception left process_book
    page_number,   \* page.number + 1 of the page being processed
    paras,         \* what merge_lines(lines) has still to yield for this page
    results,
    buffer,
    chapter,
    section,
    written,       \* the items written to output_path
    hist           \* history: the paragraphs the loop body has taken so far

vars ==
    <<docs, config, arg, ret, pc, page_number, paras, results, buffer, chapter, section, written, hist>>

Init ==
    /\ docs = <<>>
    /\ config = ConfigOK
    /\ arg = <<>>
    /\ ret = None
    /\ pc = "run"
    /\ page_number = 0
    /\ paras = <<>>
    /\ results = <<>>
    /\ buffer = <<>>
    /\ chapter = None
    /\ section = None
    /\ written = <<>>
    /\ hist = <<>>

(* for page in doc: page_number, blocks, lines, merge_lines(lines) *)
ReadPage ==
    /\ pc = "run"
    /\ paras = <<>>
    /\ page_number < MaxPages
    /\ \E blocks \in PagePool \cup {FaultyPage} :
         /\ page_number' = page_number + 1
         /\ IF None \in Range(blocks)
            THEN /\ pc' = "aborted"
                 /\ paras' = paras
            ELSE /\ pc' = pc
                 /\ paras' = merge_lines(page_lines(blocks), 120)
    /\ UNCHANGED <<docs, config, arg, ret, results, buffer, chapter, section, written, hist>>

(* the loop body takes the next paragraph of the generator *)
Take(para) ==
    /\ pc = "run"
    /\ paras # <<>>
    /\ para = Head(paras)
    /\ paras' = Tail(paras)
    /\ hist' = Append(hist, para)
    /\ UNCHANGED <<docs, config, arg, ret, pc, page_number, written>>

(* variant: the section rule is tested first, a line matching both is no chapter heading *)
IsChapter_aftersection(para) ==
    Truthy(Rules[para].chapter_title) /\ ~Truthy(Rules[para].section_title)

IsChapter(para) == Truthy(Rules[para].chapter_title)

IsSection(para) == ~IsChapter(para) /\ Truthy(Rules[para].section_title)

(* is_valid(para, keywords) raises: the length test passed and keywords cannot be iterated *)
ValidityRaises(para) ==
    /\ 15 <= Len(para)
    /\ Len(para) <= 500
    /\ config.keywords = None

(* variant: the verdict depends on the buffer, a paragraph is rejected while a caption is pending *)
Valid_pending(para) ==
    /\ buffer = <<>>
    /\ ~ValidityRaises(para)
    /\ IF config.keywords = keywords THEN Rules[para].valid ELSE is_valid(para, config.keywords)

(* is_valid(para, keywords) returns True *)
Valid(para) ==
    /\ ~ValidityRaises(para)
    /\ IF config.keywords = keywords THEN Rules[para].valid ELSE is_valid(para, config.keywords)

(* variant: the validity filter is skipped *)
IsCandidate_unfiltered(para) == ~IsChapter(para) /\ ~IsSection(para) /\ ~ValidityRaises(para)

IsCandidate(para) == ~IsChapter(para) /\ ~IsSection(para) /\ Valid(para)

IsCaption(para) == IsCandidate(para) /\ Rules[para].ptype = TypeFigureCaption

IsBody(para) == IsCandidate(para) /\ Rules[para].ptype # TypeFigureCaption

(* variant: only the first chapter heading of the document is kept *)
ChapterHeading_first ==
    \E para \in Paragraphs :
        /\ Take(para)
        /\ IsChapter(para)
        /\ chapter' = IF chapter = None THEN Rules[para].chapter_title ELSE chapter
        /\ UNCHANGED <<results, buffer, section>>

ChapterHeading ==
    \E para \in Paragraphs :
        /\ Take(para)
        /\ IsChapter(para)
        /\ chapter' = Rules[para].chapter_title
        /\ UNCHANGED <<results, buffer, section>>

(* variant: a section heading empties the buffer *)
SectionHeading_flush ==
    \E para \in Paragraphs :
        /\ Take(para)
        /\ IsSection(para)
        /\ section' = Rules[para].section_title
        /\ buffer' = <<>>
        /\ UNCHANGED <<results, chapter>>

SectionHeading ==
    \E para \in Paragraphs :
        /\ Take(para)
        /\ IsSection(para)
        /\ section' = Rules[para].section_title
        /\ UNCHANGED <<results, buffer, chapter>>

(* variant: a rejected paragraph clears the pending captions *)
DropInvalid_clears ==
    \E para \in Paragraphs :
        /\ Take(para)
        /\ ~IsChapter(para)
        /\ ~IsSection(para)
        /\ ~ValidityRaises(para)
        /\ ~Valid(para)
        /\ buffer' = <<>>
        /\ UNCHANGED <<results, chapter, section>>

DropInvalid ==
    \E para \in Paragraphs :
        /\ Take(para)
        /\ ~IsChapter(para)
        /\ ~IsSection(para)
        /\ ~ValidityRaises(para)
        /\ ~Valid(para)
        /\ UNCHANGED <<results, buffer, chapter, section>>

(* variant: the caption is buffered and appended to the output as well *)
BufferCaption_alsoappend ==
    \E para \in Paragraphs :
        /\ Take(para)
        /\ IsCaption(para)
        /\ LET entry == [text |-> para,
                         page |-> page_number,
                         chapter |-> chapter,
                         section_title |-> section,
                         figure |-> Rules[para].fig,
                         type |-> Rules[para].ptype,
                         source |-> config.source]
           IN  /\ buffer' = Append(buffer, entry)
               /\ results' = Append(results, entry)
        /\ UNCHANGED <<chapter, section>>

(* variant: the buffer is one slot, a caption replaces the pending one *)
BufferCaption_replace ==
    \E para \in Paragraphs :
        /\ Take(para)
        /\ IsCaption(para)
        /\ LET entry == [text |-> para,
                         page |-> page_number,
                         chapter |-> chapter,
                         section_title |-> section,
                         figure |-> Rules[para].fig,
                         type |-> Rules[para].ptype,
                         source |-> config.source]
           IN  /\ buffer' = <<entry>>
               /\ results' = results
        /\ UNCHANGED <<chapter, section>>

BufferCaption ==
    \E para \in Paragraphs :
        /\ Take(para)
        /\ IsCaption(para)
        /\ buffer' = Append(buffer,
                            [text |-> para,
                             page |-> page_number,
                             chapter |-> chapter,
                             section_title |-> section,
                             figure |-> Rules[para].fig,
                             type |-> Rules[para].ptype,
                             source |-> config.source])
        /\ UNCHANGED <<results, chapter, section>>

(* dict.update: the keys of upd replace or extend those of d *)
Update(d, upd) ==
    [k \in DOMAIN d \cup DOMAIN upd |-> IF k \in DOMAIN upd THEN upd[k] ELSE d[k]]

(* variant: the oldest pending caption is taken, buffer.pop(0) *)
MergeCaption_oldest ==
    \E para \in Paragraphs :
        /\ Take(para)
        /\ IsBody(para)
        /\ buffer # <<>>
        /\ LET fig_entry == buffer[1]
           IN  /\ buffer' = Tail(buffer)
               /\ results' = Append(results,
                                    Update(fig_entry,
                                           [text_full |-> fig_entry.text \o <<32>> \o para,
                                            from_figure_merge |-> TRUE,
                                            context_window |-> <<>>,
                                            page |-> page_number,
                                            chapter |-> chapter,
                                            section_title |-> section]))
        /\ UNCHANGED <<chapter, section>>

(* variant: the merged entry keeps the page, chapter and section of the caption *)
MergeCaption_captioncontext ==
    \E para \in Paragraphs :
        /\ Take(para)
        /\ IsBody(para)
        /\ buffer # <<>>
        /\ LET fig_entry == buffer[Len(buffer)]
           IN  /\ buffer' = SubSeq(buffer, 1, Len(buffer) - 1)
               /\ results' = Append(results,
                                    Update(fig_entry,
                                           [text_full |-> fig_entry.text \o <<32>> \o para,
                                            from_figure_merge |-> TRUE,
                                            context_window |-> <<>>]))
        /\ UNCHANGED <<chapter, section>>

(* variant: the merged entry loses the key "type" *)
MergeCaption_notype ==
    \E para \in Paragraphs :
        /\ Take(para)
        /\ IsBody(para)
        /\ buffer # <<>>
        /\ LET fig_entry == buffer[Len(buffer)]
           IN  /\ buffer' = SubSeq(buffer, 1, Len(buffer) - 1)
               /\ results' = Append(results,
                                    [k \in (DOMAIN fig_entry \ {"type"})
                                           \cup {"text_full", "from_figure_merge", "context_window"} |->
                                        Update(fig_entry,
                                               [text_full |-> fig_entry.text \o <<32>> \o para,
                                                from_figure_merge |-> TRUE,
                                                context_window |-> <<>>,
                                                page |-> page_number,
                                                chapter |-> chapter,
                                                section_title |-> section])[k]])
        /\ UNCHANGED <<chapter, section>>

(* variant: the concatenation replaces the text of the merged entry *)
MergeCaption_textjoined ==
    \E para \in Paragraphs :
        /\ Take(para)
        /\ IsBody(para)
        /\ buffer # <<>>
        /\ LET fig_entry == buffer[Len(buffer)]
           IN  /\ buffer' = SubSeq(buffer, 1, Len(buffer) - 1)
               /\ results' = Append(results,
                                    Update(fig_entry,
                                           [text |-> fig_entry.text \o <<32>> \o para,
                                            text_full |-> fig_entry.text \o <<32>> \o para,
                                            from_figure_merge |-> TRUE,
                                            context_window |-> <<>>,
                                            page |-> page_number,
                                            chapter |-> chapter,
                                            section_title |-> section]))
        /\ UNCHANGED <<chapter, section>>

(* variant: the merged entry overwrites the last entry of the output *)
MergeCaption_inplace ==
    \E para \in Paragraphs :
        /\ Take(para)
        /\ IsBody(para)
        /\ buffer # <<>>
        /\ LET fig_entry == buffer[Len(buffer)]
               merged == Update(fig_entry,
                                [text_full |-> fig_entry.text \o <<32>> \o para,
                                 from_figure_merge |-> TRUE,
                                 context_window |-> <<>>,
                                 page |-> page_number,
                                 chapter |-> chapter,
                                 section_title |-> section])
           IN  /\ buffer' = SubSeq(buffer, 1, Len(buffer) - 1)
               /\ results' = IF results = <<>> THEN <<merged>>
                             ELSE [results EXCEPT ![Len(results)] = merged]
        /\ UNCHANGED <<chapter, section>>

MergeCaption ==
    \E para \in Paragraphs :
        /\ Take(para)
        /\ IsBody(para)
        /\ buffer # <<>>
        /\ LET fig_entry == buffer[Len(buffer)]
           IN  /\ buffer' = SubSeq(buffer, 1, Len(buffer) - 1)
               /\ results' = Append(results,
                                    Update(fig_entry,
                                           [text_full |-> fig_entry.text \o <<32>> \o para,
                                            from_figure_merge |-> TRUE,
                                            context_window |-> <<>>,
                                            page |-> page_number,
                                            chapter |-> chapter,
                                            section_title |-> section]))
        /\ UNCHANGED <<chapter, section>>

(* variant: a window of the last three entries, results[-3:] *)
ContextWindow_three(rs) ==
    IF Len(rs) >= 3 THEN <<rs[Len(rs) - 2].text, rs[Len(rs) - 1].text, rs[Len(rs)].text>>
    ELSE IF Len(rs) >= 2 THEN <<rs[Len(rs) - 1].text, rs[Len(rs)].text>>
    ELSE <<>>

(* variant: the window lists the newest entry first *)
ContextWindow_reversed(rs) ==
    IF Len(rs) >= 2 THEN <<rs[Len(rs)].text, rs[Len(rs) - 1].text>> ELSE <<>>

(* [r["text"] for r in results[-2:]] if len(results) >= 2 else [] *)
(* variant: results[-2:] without the length test *)
ContextWindow_slice(rs) ==
    IF Len(rs) >= 2 THEN <<rs[Len(rs) - 1].text, rs[Len(rs)].text>>
    ELSE [i \in 1 .. Len(rs) |-> rs[i].text]

(* variant: the window takes text_full where an entry has one *)
ContextWindow_full(rs) ==
    IF Len(rs) >= 2
    THEN [i \in 1 .. 2 |->
             LET r == rs[Len(rs) - 2 + i]
             IN  IF "text_full" \in DOMAIN r THEN r.text_full ELSE r.text]
    ELSE <<>>

ContextWindow(rs) ==
    IF Len(rs) >= 2 THEN <<rs[Len(rs) - 1].text, rs[Len(rs)].text>> ELSE <<>>

(* variant: the new entry is put in front, results.insert(0, entry) *)
Standalone_front ==
    \E para \in Paragraphs :
        /\ Take(para)
        /\ IsBody(para)
        /\ buffer = <<>>
        /\ results' = <<[text |-> para,
                              page |-> page_number,
                              chapter |-> chapter,
                              section_title |-> section,
                              figure |-> Rules[para].fig,
                              type |-> Rules[para].ptype,
                              context_window |-> ContextWindow(results),
                              source |-> config.source]>> \o results
        /\ UNCHANGED <<buffer, chapter, section>>

(* variant: the test `ptype == "图注"` is missing, a caption falls through to the standalone path *)
Standalone_anytype ==
    \E para \in Paragraphs :
        /\ Take(para)
        /\ IsCandidate(para)
        /\ buffer = <<>>
        /\ results' = Append(results,
                             [text |-> para,
                              page |-> page_number,
                              chapter |-> chapter,
                              section_title |-> section,
                              figure |-> Rules[para].fig,
                              type |-> Rules[para].ptype,
                              context_window |-> ContextWindow(results),
                              source |-> config.source])
        /\ UNCHANGED <<buffer, chapter, section>>

(* variant: the standalone entry does not record the figure reference *)
Standalone_nofigure ==
    \E para \in Paragraphs :
        /\ Take(para)
        /\ IsBody(para)
        /\ buffer = <<>>
        /\ results' = Append(results,
                             [text |-> para,
                              page |-> page_number,
                              chapter |-> chapter,
                              section_title |-> section,
                              figure |-> None,
                              type |-> Rules[para].ptype,
                              context_window |-> ContextWindow(results),
                              source |-> config.source])
        /\ UNCHANGED <<buffer, chapter, section>>

Standalone ==
    \E para \in Paragraphs :
        /\ Take(para)
        /\ IsBody(para)
        /\ buffer = <<>>
        /\ results' = Append(results,
                             [text |-> para,
                              page |-> page_number,
                              chapter |-> chapter,
                              section_title |-> section,
                              figure |-> Rules[para].fig,
                              type |-> Rules[para].ptype,
                              context_window |-> ContextWindow(results),
                              source |-> config.source])
        /\ UNCHANGED <<buffer, chapter, section>>

(* variant: a caption still pending at the end is written as well *)
WriteOutput_flush ==
    /\ pc = "run"
    /\ paras = <<>>
    /\ written' = results \o buffer
    /\ pc' = "done"
    /\ UNCHANGED <<docs, config, arg, ret, page_number, paras, results, buffer, chapter, section, hist>>

(* the page loop ends; the results are written, the buffer goes out of scope *)
WriteOutput ==
    /\ pc = "run"
    /\ paras = <<>>
    /\ written' = results
    /\ pc' = "done"
    /\ UNCHANGED <<docs, config, arg, ret, page_number, paras, results, buffer, chapter, section, hist>>

Next ==
    \/ ReadPage
    \/ ChapterHeading
    \/ SectionHeading
    \/ DropInvalid
    \/ BufferCaption
    \/ MergeCaption
    \/ Standalone
    \/ WriteOutput

Spec == Init /\ [][Next]_vars

(* ---------------------------------------------------------------------- *)
(* process_book called with any config                                    *)
(* ---------------------------------------------------------------------- *)
(* config["keywords"] at line 105 raises KeyError before the document is opened *)
InitConfig ==
    /\ docs = <<>>
    /\ config \in {ConfigOK, ConfigMissing, ConfigInvalid}
    /\ arg = <<>>
    /\ ret = None
    /\ pc = IF "keywords" \in DOMAIN config THEN "run" ELSE "aborted"
    /\ page_number = 0
    /\ paras = <<>>
    /\ results = <<>>
    /\ buffer = <<>>
    /\ chapter = None
    /\ section = None
    /\ written = <<>>
    /\ hist = <<>>

(* any(kw in text for kw in keywords) raises TypeError inside is_valid; nothing catches it *)
ValidityError ==
    \E para \in Paragraphs :
        /\ pc = "run"
        /\ paras # <<>>
        /\ para = Head(paras)
        /\ ~IsChapter(para)
        /\ ~IsSection(para)
        /\ ValidityRaises(para)
        /\ pc' = "aborted"
        /\ hist' = Append(hist, para)
        /\ UNCHANGED <<docs, config, arg, ret, page_number, paras, results, buffer, chapter, section,
                       written>>

NextConfig == Next \/ ValidityError

SpecConfig == InitConfig /\ [][NextConfig]_vars

(* ---------------------------------------------------------------------- *)
(* classify_type called on its own                                        *)
(* ---------------------------------------------------------------------- *)
(* fragments of the number of MaxFragments at most are joined to a text *)
MaxFragments == 3

(* "是"  "一种"  "卖出"  "图6.57"  "形态"  "Figure 3"  and "颈线" thirty times *)
Fragments ==
    {<<26159>>, <<19968, 31181>>, <<21334, 20986>>, <<22270, 54, 46, 53, 55>>, <<24418, 24577>>,
     <<70, 105, 103, 117, 114, 101, 32, 51>>,
     [i \in 1 .. 60 |-> IF i % 2 = 1 THEN 39048 ELSE 32447]}

RECURSIVE Join(_)
Join(ss) == IF ss = <<>> THEN <<>> ELSE Head(ss) \o Join(Tail(ss))

ClassifyTexts == {Join(fs) : fs \in UNION {[1 .. n -> Fragments] : n \in 1 .. MaxFragments}}

InitClassify ==
    /\ docs = <<>>
    /\ config = ConfigOK
    /\ arg \in ClassifyTexts
    /\ ret = None
    /\ pc = "call"
    /\ page_number = 0
    /\ paras = <<>>
    /\ results = <<>>
    /\ buffer = <<>>
    /\ chapter = None
    /\ section = None
    /\ written = <<>>
    /\ hist = <<>>

Classify ==
    /\ pc = "call"
    /\ ret' = classify_type(arg)
    /\ pc' = "returned"
    /\ UNCHANGED <<docs, config, arg, page_number, paras, results, buffer, chapter, section, written,
                   hist>>

NextClassify == Classify

SpecClassify == InitClassify /\ [][NextClassify]_vars

(* ---------------------------------------------------------------------- *)
(* is_valid called on its own                                             *)
(* ---------------------------------------------------------------------- *)
(* "形态 "  "形态"  " "  "出版社"  "："  and "的" 11, 12, 497 and 498 times *)
ValidFragments ==
    {<<24418, 24577, 32>>, <<24418, 24577>>, <<32>>, <<20986, 29256, 31038>>, <<65306>>,
     [i \in 1 .. 11 |-> 30340], [i \in 1 .. 12 |-> 30340],
     [i \in 1 .. 497 |-> 30340], [i \in 1 .. 498 |-> 30340]}

ValidTexts == {Join(fs) : fs \in UNION {[1 .. n -> ValidFragments] : n \in 1 .. MaxFragments}}

InitValid ==
    /\ docs = <<>>
    /\ config = ConfigOK
    /\ arg \in ValidTexts
    /\ ret = None
    /\ pc = "call"
    /\ page_number = 0
    /\ paras = <<>>
    /\ results = <<>>
    /\ buffer = <<>>
    /\ chapter = None
    /\ section = None
    /\ written = <<>>
    /\ hist = <<>>

Validate ==
    /\ pc = "call"
    /\ ret' = is_valid(arg, config.keywords)
    /\ pc' = "returned"
    /\ UNCHANGED <<docs, config, arg, page_number, paras, results, buffer, chapter, section, written,
                   hist>>

NextValid == Validate

SpecValid == InitValid /\ [][NextValid]_vars

(* ---------------------------------------------------------------------- *)
(* merge_lines called on the lines of one page                            *)
(* ---------------------------------------------------------------------- *)
(* a page has MaxLines lines at most *)
MaxLines == 3

(* stripped, non-blank lines as the comprehension of the page loop yields them: "a", "b" 40
   times, "c" 59 times, "d" 60 times, "e" 120 times, and a line with a blank inside *)
MergeLinePool ==
    {<<97>>, [i \in 1 .. 40 |-> 98], [i \in 1 .. 59 |-> 99], [i \in 1 .. 60 |-> 100],
     [i \in 1 .. 120 |-> 101], ExplanationLine}

InitMerge ==
    /\ docs = <<>>
    /\ config = ConfigOK
    /\ arg \in UNION {[1 .. n -> MergeLinePool] : n \in 0 .. MaxLines}
    /\ ret = None
    /\ pc = "call"
    /\ page_number = 0
    /\ paras = <<>>
    /\ results = <<>>
    /\ buffer = <<>>
    /\ chapter = None
    /\ section = None
    /\ written = <<>>
    /\ hist = <<>>

(* list(merge_lines(lines)) with the default max_len *)
MergeLines ==
    /\ pc = "call"
    /\ ret' = merge_lines(arg, 120)
    /\ pc' = "returned"
    /\ UNCHANGED <<docs, config, arg, page_number, paras, results, buffer, chapter, section, written,
                   hist>>

NextMerge == MergeLines

SpecMerge == InitMerge /\ [][NextMerge]_vars

(* ---------------------------------------------------------------------- *)
(* extract_data of TermETActionIDataPreparer_V4: several documents        *)
(* ---------------------------------------------------------------------- *)
(* extract_data is given MaxDocs paths at most *)
MaxDocs == 2

(* the documents together have MaxDocLines lines at most *)
MaxDocLines == 4

(* "file/金融市场技术分析.pdf" and "file/日本蜡烛图技术.pdf" *)
PdfPaths ==
    {<<102, 105, 108, 101, 47, 37329, 34701, 24066, 22330, 25216, 26415, 20998, 26512, 46, 112,
       100, 102>>,
     <<102, 105, 108, 101, 47, 26085, 26412, 34593, 28891, 22270, 25216, 26415, 46, 112, 100,
       102>>}

V4_keywords ==
    <<<<75, 32447>>, <<24418, 24577>>, <<20449, 21495>>, <<25351, 26631>>, <<22343, 32447>>,
      <<31227, 21160, 24179, 22343, 32447>>, <<21453, 36716>>, <<31361, 30772>>,
      <<25903, 25745>>, <<38459, 21147>>, <<25104, 20132, 37327>>, <<20080, 20837>>,
      <<21334, 20986>>, <<22836, 32937, 39030>>, <<22836, 32937, 24213>>,
      <<38180, 23376, 32447>>, <<21534, 27809, 24418, 24577>>, <<20044, 20113, 30422, 39030>>,
      <<21050, 36879, 24418, 24577>>, <<21551, 26126, 26143>>, <<40644, 26127, 26143>>,
      <<21313, 23383, 26143>>, <<27969, 26143, 32447>>, <<20498, 38180, 23376, 32447>>,
      <<23381, 32447>>, <<24179, 22836, 39030, 37096>>, <<24179, 22836, 24213, 37096>>,
      <<25417, 33136, 24102, 32447>>, <<19977, 21482, 20044, 40486>>,
      <<30333, 33394, 19977, 20853>>, <<19977, 23665, 24418, 24577>>,
      <<19977, 24029, 24418, 24577>>, <<21453, 20987, 32447>>, <<32422, 20250, 32447>>,
      <<22278, 24418, 39030, 37096>>, <<22278, 24418, 24213, 37096>>,
      <<22612, 24418, 39030, 37096>>, <<22612, 24418, 24213, 37096>>, <<31383, 21475>>,
      <<36339, 31354>>, <<19978, 21319, 19977, 27861>>, <<19979, 38477, 19977, 27861>>,
      <<20998, 25163, 32447>>, <<21313, 23383, 32447>>, <<38271, 33151, 21313, 23383, 32447>>,
      <<22675, 30865, 21313, 23383, 32447>>, <<34619, 34579, 21313, 23383, 32447>>,
      <<19977, 26143, 24418, 24577>>, <<36235, 21183, 32447>>,
      <<30334, 20998, 27604, 22238, 25764>>, <<25670, 21160, 25351, 25968>>, <<82, 83, 73>>,
      <<77, 65, 67, 68>>, <<24067, 26519, 24102>>, <<67, 67, 73>>, <<83, 65, 82>>,
      <<79, 66, 86>>, <<68, 77, 73>>, <<65, 84, 82>>, <<33406, 30053, 29305, 27874, 28010>>,
      <<40644, 37329, 20998, 21106>>, <<22238, 25764>>, <<25972, 29702>>, <<24041, 22266>>,
      <<36229, 20080>>, <<36229, 21334>>, <<32972, 31163>>, <<21457, 25955>>, <<25910, 25947>>,
      <<31665, 20307>>, <<36890, 36947>>, <<25159, 24418>>, <<26102, 38388, 21608, 26399>>,
      <<24490, 29615, 21608, 26399>>, <<25442, 25163, 29575>>, <<26495, 22359, 36718, 21160>>,
      <<20132, 21449, 24066, 22330, 20998, 26512>>>>

(* 免责声明|版权所有|微信|扫码|www\.|http|\.cn|大学|出版社|本书由 *)
V4_Blocklist ==
    <<<<20813, 36131, 22768, 26126>>, <<29256, 26435, 25152, 26377>>, <<24494, 20449>>,
      <<25195, 30721>>, <<119, 119, 119, 46>>, <<104, 116, 116, 112>>, <<46, 99, 110>>,
      <<22823, 23398>>, <<20986, 29256, 31038>>, <<26412, 20070, 30001>>>>

(* 买入|卖出|信号|建议|策略|触发 *)
V4_ActionKeywords ==
    <<<<20080, 20837>>, <<21334, 20986>>, <<20449, 21495>>, <<24314, 35758>>, <<31574, 30053>>,
      <<35302, 21457>>>>

(* "形态", "模型", "K线", "线图", "指标", "术语" *)
V4_TermKeywords ==
    <<<<24418, 24577>>, <<27169, 22411>>, <<75, 32447>>, <<32447, 22270>>, <<25351, 26631>>,
      <<26415, 35821>>>>

(* [一-龥_a-zA-Z0-9] *)
V4_SectionWord == (19968 .. 40869) \cup {95} \cup (97 .. 122) \cup (65 .. 90) \cup (48 .. 57)

(* ^(第[一二三四五六七八九十百]+章)(\s|$) on text.strip(): group 1 *)
V4_extract_chapter_title(text) ==
    LET s == strip(text)
        e == RunEnd(s, 2, ChapterNumerals)
    IN  IF /\ Len(s) >= 3
           /\ s[1] = 31532
           /\ e >= 2
           /\ e + 1 <= Len(s)
           /\ s[e + 1] = 31456
           /\ (e + 1 = Len(s) \/ s[e + 2] \in Whitespace)
        THEN SubSeq(s, 1, e + 1)
        ELSE None

(* ((\d+\.)*\d+\s)? at the start of s: the index of its \s, 0 when the group is empty *)
V4_SectionNumberEnd(s) ==
    LET q == RunEnd(s, 1, Digit \cup {46})
    IN  IF /\ q >= 1
           /\ s[1] \in Digit
           /\ s[q] \in Digit
           /\ \A i \in 1 .. (q - 1) : ~(s[i] = 46 /\ s[i + 1] = 46)
           /\ q + 1 <= Len(s)
           /\ s[q + 1] \in Whitespace
        THEN q + 1
        ELSE 0

(* [一-龥_a-zA-Z0-9]+(：|:| ) from index i *)
V4_SectionWordAt(s, i) ==
    LET e == RunEnd(s, i, V4_SectionWord)
    IN  e >= i /\ e + 1 <= Len(s) /\ s[e + 1] \in {65306, 58, 32}

(* ^((\d+\.)*\d+\s)?[一-龥_a-zA-Z0-9]+(：|:| ) matched on text, if len(text.strip()) <= 50 *)
V4_extract_section_title(text) ==
    IF /\ Len(strip(text)) <= 50
       /\ \/ V4_SectionWordAt(text, 1)
          \/ (V4_SectionNumberEnd(text) > 0 /\ V4_SectionWordAt(text, V4_SectionNumberEnd(text) + 1))
    THEN strip(text)
    ELSE None

(* (图\s*\d+(-\d+)?) anchored at index i: last index of the match, else 0 *)
V4_FigureMatchEnd(s, i) ==
    IF s[i] # 22270 THEN 0
    ELSE LET w == RunEnd(s, i + 1, Whitespace)
             e == RunEnd(s, w + 1, Digit)
         IN  IF e < w + 1 THEN 0
             ELSE IF e + 2 <= Len(s) /\ s[e + 1] = 45 /\ s[e + 2] \in Digit
                  THEN RunEnd(s, e + 2, Digit)
                  ELSE e

V4_extract_figure(text) ==
    LET hits == {i \in 1 .. Len(text) : V4_FigureMatchEnd(text, i) > 0}
    IN  IF hits = {} THEN None
        ELSE SubSeq(text, SetMin(hits), V4_FigureMatchEnd(text, SetMin(hits)))

(* DEFINITION_PATTERN.search(text): .*?[是为指称叫属于构成]+.*?一种.*?[形态模型结构]? *)
V4_DefinitionRule(text) ==
    \E j \in 2 .. (Len(text) - 1) :
        /\ text[j] = 19968
        /\ text[j + 1] = 31181
        /\ \E i \in 1 .. (j - 1) :
               /\ text[i] \in DefinitionCopula
               /\ \A k \in i .. (j + 1) : text[k] # 10

(* the value of the EntryType that classify_type returns *)
V4_classify_type(text) ==
    IF V4_DefinitionRule(text) THEN TypeDefinition
    ELSE IF ContainsAny(text, V4_ActionKeywords) THEN TypeTradingLogic
    ELSE IF Truthy(V4_extract_figure(text)) THEN TypeFigureCaption
    ELSE IF Len(text) <= 40 /\ ContainsAny(text, V4_TermKeywords) THEN TypeTerm
    ELSE TypeExplanation

V4_is_valid(text) ==
    LET t == strip(text)
    IN  IF ~(20 <= Len(t) /\ Len(t) <= 500) THEN FALSE
        ELSE IF ~ContainsAny(t, V4_keywords) THEN FALSE
        ELSE IF ContainsAny(t, V4_Blocklist) THEN FALSE
        ELSE IF t[Len(t)] = 65306 \/ SplitCount(t) < 3 THEN FALSE
        ELSE TRUE

(* s.replace(w, "") *)
RECURSIVE RemoveAll(_, _)
RemoveAll(s, w) ==
    LET at == {i \in 1 .. (Len(s) - Len(w) + 1) : SubSeq(s, i, i + Len(w) - 1) = w}
    IN  IF at = {} THEN s
        ELSE SubSeq(s, 1, SetMin(at) - 1) \o RemoveAll(SubSeq(s, SetMin(at) + Len(w), Len(s)), w)

(* pdf_path.split("/")[-1].replace(".pdf", "") *)
PdfSource(pdf_path) ==
    LET slash == {i \in 1 .. Len(pdf_path) : pdf_path[i] = 47}
        name == IF slash = {} THEN pdf_path
                ELSE SubSeq(pdf_path, SetMax(slash) + 1, Len(pdf_path))
    IN  RemoveAll(name, <<46, 112, 100, 102>>)

(* "头肩顶，是一种 看跌反转形态 常见于趋势顶部区域" *)
V4_DefinitionLine ==
    <<22836, 32937, 39030, 65292, 26159, 19968, 31181, 32, 30475, 36300, 21453, 36716, 24418,
      24577, 32, 24120, 35265, 20110, 36235, 21183, 39030, 37096, 21306, 22495>>

(* "颈线，被突破之后 可以考虑卖出 并等待回抽确认" *)
V4_TradingLine ==
    <<39048, 32447, 65292, 34987, 31361, 30772, 20043, 21518, 32, 21487, 20197, 32771, 34385,
      21334, 20986, 32, 24182, 31561, 24453, 22238, 25277, 30830, 35748>>

(* "图6-57，头肩顶 的颈线被突破 的示例图形说明" *)
V4_CaptionLine ==
    <<22270, 54, 45, 53, 55, 65292, 22836, 32937, 39030, 32, 30340, 39048, 32447, 34987, 31361,
      30772, 32, 30340, 31034, 20363, 22270, 24418, 35828, 26126>>

(* the pages of the documents, each the sequence of field 4 of its blocks: a chapter heading,
   two section headings (the second with a blank line behind it), a line that is too short,
   two body lines and a caption *)
V4_PagePool ==
    {<<Line1>>, <<TradingLine>>, <<ExplanationBlock>>, <<Line3>>, <<V4_DefinitionLine>>,
     <<V4_TradingLine>>, <<V4_CaptionLine>>}

(* for block in blocks: for line in block[4].split("\n") *)
RECURSIVE V4_block_lines(_)
V4_block_lines(blocks) ==
    IF blocks = <<>> THEN <<>>
    ELSE SplitNewline(Head(blocks)) \o V4_block_lines(Tail(blocks))

(* text = line.strip() of every line of the pool *)
V4_Lines == UNION {{strip(l) : l \in Range(V4_block_lines(pg))} : pg \in V4_PagePool}

(* the helpers' results per stripped line, evaluated once *)
V4_Rules ==
    [t \in V4_Lines |->
        [chapter_title |-> V4_extract_chapter_title(t),
         section_title |-> V4_extract_section_title(t),
         valid |-> V4_is_valid(t),
         fig |-> V4_extract_figure(t),
         ptype |-> V4_classify_type(t)]]

V4_Init ==
    /\ docs = <<>>
    /\ config = ConfigOK
    /\ arg = <<>>
    /\ ret = None
    /\ pc = "run"
    /\ page_number = 0
    /\ paras = <<>>
    /\ results = <<>>
    /\ buffer = <<>>
    /\ chapter = None
    /\ section = None
    /\ written = <<>>
    /\ hist = <<>>

(* for pdf_path in pdf_paths: doc, source, buffer, current_chapter, current_section *)
V4_OpenDoc ==
    /\ pc = "run"
    /\ paras = <<>>
    /\ Len(docs) < MaxDocs
    /\ \E pdf_path \in PdfPaths : docs' = Append(docs, pdf_path)
    /\ buffer' = <<>>
    /\ chapter' = None
    /\ section' = None
    /\ page_number' = 0
    /\ UNCHANGED <<config, arg, ret, pc, paras, results, written, hist>>

(* for page in doc: page_number, blocks; paras holds the lines still to come *)
V4_ReadPage ==
    /\ pc = "run"
    /\ docs # <<>>
    /\ paras = <<>>
    /\ Len(hist) < MaxDocLines
    /\ \E blocks \in V4_PagePool : paras' = V4_block_lines(blocks)
    /\ page_number' = page_number + 1
    /\ UNCHANGED <<docs, config, arg, ret, pc, results, buffer, chapter, section, written, hist>>

(* the loop body takes the next line; hist records its document, its text and the branch *)
V4_Take(text, kind) ==
    /\ pc = "run"
    /\ paras # <<>>
    /\ text = strip(Head(paras))
    /\ paras' = Tail(paras)
    /\ hist' = Append(hist, [doc |-> Len(docs), text |-> text, kind |-> kind])
    /\ UNCHANGED <<docs, config, arg, ret, pc, page_number, written>>

V4_IsChapter(text) == text # <<>> /\ Truthy(V4_Rules[text].chapter_title)

V4_IsSection(text) ==
    text # <<>> /\ ~V4_IsChapter(text) /\ Truthy(V4_Rules[text].section_title)

V4_IsCandidate(text) ==
    text # <<>> /\ ~V4_IsChapter(text) /\ ~V4_IsSection(text) /\ V4_Rules[text].valid

(* if not text: continue *)
V4_BlankLine ==
    /\ V4_Take(<<>>, "blank")
    /\ UNCHANGED <<results, buffer, chapter, section>>

V4_ChapterHeading ==
    \E text \in V4_Lines :
        /\ V4_Take(text, "chapter")
        /\ V4_IsChapter(text)
        /\ chapter' = V4_Rules[text].chapter_title
        /\ UNCHANGED <<results, buffer, section>>

V4_SectionHeading ==
    \E text \in V4_Lines :
        /\ V4_Take(text, "section")
        /\ V4_IsSection(text)
        /\ section' = V4_Rules[text].section_title
        /\ UNCHANGED <<results, buffer, chapter>>

V4_DropInvalid ==
    \E text \in V4_Lines :
        /\ V4_Take(text, "invalid")
        /\ text # <<>>
        /\ ~V4_IsChapter(text)
        /\ ~V4_IsSection(text)
        /\ ~V4_Rules[text].valid
        /\ UNCHANGED <<results, buffer, chapter, section>>

V4_BufferCaption ==
    \E text \in V4_Lines :
        /\ V4_Take(text, "caption")
        /\ V4_IsCandidate(text)
        /\ V4_Rules[text].ptype = TypeFigureCaption
        /\ buffer' = Append(buffer,
                            [text |-> text,
                             page |-> page_number,
                             chapter |-> chapter,
                             section_title |-> section,
                             figure |-> V4_Rules[text].fig,
                             type |-> V4_Rules[text].ptype,
                             source |-> PdfSource(docs[Len(docs)])])
        /\ UNCHANGED <<results, chapter, section>>

V4_MergeCaption ==
    \E text \in V4_Lines :
        /\ V4_Take(text, "body")
        /\ V4_IsCandidate(text)
        /\ V4_Rules[text].ptype # TypeFigureCaption
        /\ buffer # <<>>
        /\ LET fig_entry == buffer[Len(buffer)]
           IN  /\ buffer' = SubSeq(buffer, 1, Len(buffer) - 1)
               /\ results' = Append(results,
                                    Update(fig_entry,
                                           [text_full |-> fig_entry.text \o <<32>> \o text,
                                            from_figure_merge |-> TRUE,
                                            context_window |-> <<>>,
                                            page |-> page_number,
                                            chapter |-> chapter,
                                            section_title |-> section,
                                            source |-> PdfSource(docs[Len(docs)])]))
        /\ UNCHANGED <<chapter, section>>

V4_Standalone ==
    \E text \in V4_Lines :
        /\ V4_Take(text, "body")
        /\ V4_IsCandidate(text)
        /\ V4_Rules[text].ptype # TypeFigureCaption
        /\ buffer = <<>>
        /\ results' = Append(results,
                             [text |-> text,
                              page |-> page_number,
                              chapter |-> chapter,
                              section_title |-> section,
                              figure |-> V4_Rules[text].fig,
                              type |-> V4_Rules[text].ptype,
                              context_window |-> ContextWindow(results),
                              source |-> PdfSource(docs[Len(docs)])])
        /\ UNCHANGED <<buffer, chapter, section>>

(* return results, and write_to_jsonl(extracted_data, output_jsonl) of the main block *)
V4_Return ==
    /\ pc = "run"
    /\ paras = <<>>
    /\ pc' = "done"
    /\ ret' = results
    /\ written' = results
    /\ UNCHANGED <<docs, config, arg, page_number, paras, results, buffer, chapter, section, hist>>

V4_Next ==
    \/ V4_OpenDoc
    \/ V4_ReadPage
    \/ V4_BlankLine
    \/ V4_ChapterHeading
    \/ V4_SectionHeading
    \/ V4_DropInvalid
    \/ V4_BufferCaption
    \/ V4_MergeCaption
    \/ V4_Standalone
    \/ V4_Return

SpecV4 == V4_Init /\ [][V4_Next]_vars

(* ---------------------------------------------------------------------- *)
(* Properties                                                             *)
(* ---------------------------------------------------------------------- *)
TypeOK ==
    /\ pc \in {"run", "done", "aborted", "call", "returned"}
    /\ page_number \in 0 .. MaxPages
    /\ Len(hist) <= 2 * page_number
    /\ \A i \in 1 .. Len(hist) : hist[i] \in Paragraphs
    /\ \A i \in 1 .. Len(results) : results[i].text \in Paragraphs
    /\ \A i \in 1 .. Len(buffer) : buffer[i].text \in Paragraphs

(* the entry came out of the merge path *)
IsMerged(e) == "from_figure_merge" \in DOMAIN e

(* the paragraph taken i-th occurs nowhere else in the input so far *)
Once(i) == \A k \in 1 .. Len(hist) : k # i => hist[k] # hist[i]

(* no entry of rs has the text t; the caption part of a text_full is the text of its own entry *)
Absent(t, rs) ==
    \A k \in 1 .. Len(rs) :
        /\ rs[k].text # t
        /\ "text_full" \in DOMAIN rs[k] => StartsAt(rs[k].text_full, 1, rs[k].text \o <<32>>)

(* C1: buffer capacity: the merge buffer never holds more than one pending figure-caption entry. *)
C1_BufferCapacity == Len(buffer) <= 1

(* C2: replace-not-queue: of two captions taken with no valid non-caption paragraph between them,
   the first is discarded: no output entry has its text, as text or as caption part of text_full. *)
C2_ReplaceNotQueue ==
    \A i \in 1 .. Len(hist) : \A j \in (i + 1) .. Len(hist) :
        (/\ IsCaption(hist[i])
         /\ IsCaption(hist[j])
         /\ \A k \in (i + 1) .. (j - 1) : ~IsBody(hist[k])
         /\ Once(i))
        => Absent(hist[i], results)

(* C3: merge consumption: when the paragraph taken last was a caption and the next one is a valid
   non-caption paragraph, taking it appends exactly one entry, whose text_full is the caption, a
   space and the paragraph, whose from_figure_merge is true and whose text is not the paragraph. *)
C3_MergeConsumption ==
    [][(/\ pc = "run"
        /\ paras # <<>>
        /\ hist # <<>>
        /\ IsCaption(hist[Len(hist)])
        /\ IsBody(Head(paras)))
       => (/\ Len(results') = Len(results) + 1
           /\ SubSeq(results', 1, Len(results)) = results
           /\ IsMerged(results'[Len(results')])
           /\ results'[Len(results')].from_figure_merge = TRUE
           /\ results'[Len(results')].text_full = hist[Len(hist)] \o <<32>> \o Head(paras)
           /\ results'[Len(results')].text # Head(paras))]_vars

(* a caption, then a valid non-caption paragraph, were just taken while an older caption was pending *)
C3_Witness ==
    /\ Len(hist) >= 3
    /\ IsCaption(hist[Len(hist) - 2])
    /\ IsCaption(hist[Len(hist) - 1])
    /\ hist[Len(hist) - 2] # hist[Len(hist) - 1]
    /\ IsBody(hist[Len(hist)])
    /\ results # <<>>
    /\ IsMerged(results[Len(results)])

(* C4: dangling caption drop: once the output is written, a caption that no valid non-caption
   paragraph followed has no entry in it. *)
C4_DanglingCaptionDrop ==
    pc = "done" =>
        \A i \in 1 .. Len(hist) :
            (/\ IsCaption(hist[i])
             /\ \A k \in (i + 1) .. Len(hist) : ~IsBody(hist[k])
             /\ Once(i))
            => Absent(hist[i], written)

(* the output was written with entries in it while a caption without continuation was pending *)
C4_Witness ==
    /\ pc = "done"
    /\ written # <<>>
    /\ buffer # <<>>
    /\ \E i \in 1 .. Len(hist) :
         /\ IsCaption(hist[i])
         /\ \A k \in (i + 1) .. Len(hist) : ~IsBody(hist[k])
         /\ Once(i)

(* C5: window bound: a standalone entry has a context_window of at most two texts, a merged entry
   an empty one. *)
C5_WindowBound ==
    \A k \in 1 .. Len(results) :
        IF IsMerged(results[k])
        THEN results[k].context_window = <<>>
        ELSE Len(results[k].context_window) <= 2

(* a merged entry and a standalone entry with a full window are in the output *)
C5_Witness ==
    /\ \E k \in 1 .. Len(results) : IsMerged(results[k])
    /\ \E k \in 3 .. Len(results) :
         ~IsMerged(results[k]) /\ Len(results[k].context_window) = 2

(* C6: window content: the context_window of a standalone entry is the texts of the two entries
   right before it in the output, in output order, and is empty when fewer than two precede it. *)
C6_WindowContent ==
    \A k \in 1 .. Len(results) :
        ~IsMerged(results[k]) =>
            results[k].context_window =
                IF k >= 3 THEN <<results[k - 2].text, results[k - 1].text>> ELSE <<>>

(* a standalone entry follows two entries of different text, one of them merged, with a heading
   or a dropped paragraph taken in between *)
C6_Witness ==
    /\ \E k \in 3 .. Len(results) :
         /\ ~IsMerged(results[k])
         /\ results[k - 2].text # results[k - 1].text
         /\ IsMerged(results[k - 2]) \/ IsMerged(results[k - 1])
    /\ \E k \in 2 .. Len(results) : ~IsMerged(results[k]) /\ results[k].context_window = <<>>

(* C7: order preservation: when no paragraph taken was a caption, the texts of the output are,
   in order, the valid non-heading paragraphs taken. *)
C7_OrderPreservation ==
    (\A i \in 1 .. Len(hist) : ~IsCaption(hist[i])) =>
        [k \in 1 .. Len(results) |-> results[k].text] = SelectSeq(hist, IsBody)

(* without any caption, two different paragraphs were emitted and a third was not *)
C7_Witness ==
    /\ \A i \in 1 .. Len(hist) : ~IsCaption(hist[i])
    /\ Len(results) >= 2
    /\ results[1].text # results[2].text
    /\ Len(hist) > Len(results)

(* C8: a caption is never emitted on its own: an entry whose text is a caption paragraph is a
   merged entry with a text_full, and no standalone entry has the caption type. *)
C8_CaptionNeverStandalone ==
    \A k \in 1 .. Len(results) :
        /\ IsCaption(results[k].text) =>
              /\ IsMerged(results[k])
              /\ results[k].from_figure_merge = TRUE
              /\ "text_full" \in DOMAIN results[k]
        /\ ~IsMerged(results[k]) =>
              /\ ~IsCaption(results[k].text)
              /\ results[k].type # TypeFigureCaption

(* a caption was taken while nothing was pending, and the output has a merged and a standalone entry *)
C8_Witness ==
    /\ \E k \in 1 .. Len(results) : IsMerged(results[k])
    /\ \E k \in 1 .. Len(results) : ~IsMerged(results[k])
    /\ buffer # <<>>

(* C9: the four lines of the scenario, a page each, yield a standalone Definition entry for line 2 with chapter
   line 1, then a merged entry of line 3 and line 4 with chapter line 1, and nothing else. *)
C9_Scenario ==
    (pc = "done" /\ page_number = 4 /\ hist = <<Line1, Line2, Line3, Line4>>) =>
        /\ Len(written) = 2
        /\ written[1].text = Line2
        /\ ~IsMerged(written[1])
        /\ written[1].type = TypeDefinition
        /\ written[1].chapter = Line1
        /\ IsMerged(written[2])
        /\ written[2].from_figure_merge = TRUE
        /\ written[2].text_full = Line3 \o <<32>> \o Line4
        /\ written[2].chapter = Line1

(* C10: failure isolation: an error raised while a line is handled never ends the run. *)
C10_FailureIsolation == pc # "aborted"

(* the chapter heading taken last in h, None when h has none *)
LastChapter(h) ==
    LET idx == {i \in 1 .. Len(h) : IsChapter(h[i])}
    IN  IF idx = {} THEN None ELSE Rules[h[SetMax(idx)]].chapter_title

(* the section heading taken last in h, None when h has none *)
LastSection(h) ==
    LET idx == {i \in 1 .. Len(h) : IsSection(h[i])}
    IN  IF idx = {} THEN None ELSE Rules[h[SetMax(idx)]].section_title

(* C11: headings are never emitted: taking a chapter (section) heading changes chapter (section)
   only, appends nothing and leaves the buffer as it is; no output entry has a heading as text. *)
C11_HeadingsNeverEmitted ==
    [][/\ (pc = "run" /\ paras # <<>> /\ IsChapter(Head(paras)))
          => (/\ results' = results
              /\ buffer' = buffer
              /\ section' = section)
       /\ (pc = "run" /\ paras # <<>> /\ IsSection(Head(paras)))
          => (/\ results' = results
              /\ buffer' = buffer
              /\ chapter' = chapter)
       /\ \A k \in 1 .. Len(results') :
              ~IsChapter(results'[k].text) /\ ~IsSection(results'[k].text)]_vars

(* a section heading was just taken while a caption was pending and the output was not empty *)
C11_Witness ==
    /\ hist # <<>>
    /\ IsSection(hist[Len(hist)])
    /\ section = hist[Len(hist)]
    /\ buffer # <<>>
    /\ results # <<>>

(* C12: merge context override: the merged entry carries the page, chapter and section that are
   current when the continuation is taken, not those stored with the caption. *)
C12_MergeContextOverride ==
    [][(pc = "run" /\ paras # <<>> /\ IsBody(Head(paras)) /\ buffer # <<>>)
       => (/\ Len(results') = Len(results) + 1
           /\ results'[Len(results')].text = buffer[Len(buffer)].text
           /\ results'[Len(results')].page = page_number
           /\ results'[Len(results')].chapter = chapter
           /\ results'[Len(results')].section_title = section)]_vars

(* a caption of page 1, a chapter heading, a section heading and the continuation on page 4 *)
C12_Witness ==
    /\ Len(hist) = 4
    /\ IsCaption(hist[1])
    /\ IsChapter(hist[2])
    /\ IsSection(hist[3])
    /\ IsBody(hist[4])
    /\ Len(results) = 1
    /\ IsMerged(results[1])
    /\ results[1].page = 4
    /\ results[1].chapter = hist[2]
    /\ results[1].section_title = hist[3]

(* C13: validity determinism: whatever was processed before, the verdict on a paragraph that is
   no heading is is_valid of its text and the configured keywords, so two evaluations on the
   same text agree; a rejecting evaluation changes none of chapter, section, buffer and
   output, an accepting one is followed by the append of that step. *)
C13_ValidityDeterminism ==
    [][(/\ pc = "run"
        /\ paras # <<>>
        /\ ~Truthy(Rules[Head(paras)].chapter_title)
        /\ ~Truthy(Rules[Head(paras)].section_title))
       => /\ config' = config
          /\ IF is_valid(Head(paras), keywords)
             THEN /\ UNCHANGED <<chapter, section>>
                  /\ <<results', buffer'>> # <<results, buffer>>
             ELSE UNCHANGED <<chapter, section, buffer, results>>]_vars

(* the same valid paragraph was evaluated twice, with an empty buffer and with a pending
   caption, and accepted both times *)
C13_Witness ==
    /\ Len(hist) = 3
    /\ hist[1] = hist[3]
    /\ IsBody(hist[1])
    /\ IsCaption(hist[2])
    /\ Len(results) = 2
    /\ ~IsMerged(results[1])
    /\ IsMerged(results[2])
    /\ results[2].text_full = hist[2] \o <<32>> \o hist[1]

(* C14 as claimed: a merged entry has from_figure_merge = true and no key "type"; a standalone
   entry has one type. *)
C14_MergedDropType ==
    \A k \in 1 .. Len(results) :
        IF IsMerged(results[k])
        THEN results[k].from_figure_merge = TRUE /\ "type" \notin DOMAIN results[k]
        ELSE /\ "type" \in DOMAIN results[k]
             /\ results[k].type \in {TypeDefinition, TypeTradingLogic, TypeFigureCaption,
                                     TypeTerm, TypeExplanation}

(* C14 amended: a merged entry has from_figure_merge = true and keeps the type of the caption;
   a standalone entry has one type, which is not the caption type. *)
C14_MergedKeepCaptionType ==
    \A k \in 1 .. Len(results) :
        IF IsMerged(results[k])
        THEN /\ results[k].from_figure_merge = TRUE
             /\ "type" \in DOMAIN results[k]
             /\ results[k].type = TypeFigureCaption
        ELSE /\ "type" \in DOMAIN results[k]
             /\ "from_figure_merge" \notin DOMAIN results[k]
             /\ results[k].type \in {TypeDefinition, TypeTradingLogic, TypeTerm, TypeExplanation}

(* a standalone entry of the definition type, then a merged entry *)
C14_Witness ==
    /\ Len(results) >= 2
    /\ ~IsMerged(results[1])
    /\ results[1].type = TypeDefinition
    /\ IsMerged(results[Len(results)])

(* C15 as claimed: the text of a merged entry is the caption, a space and the continuation. *)
C15_MergedText ==
    [][(pc = "run" /\ paras # <<>> /\ IsBody(Head(paras)) /\ buffer # <<>>)
       => results'[Len(results')].text = buffer[Len(buffer)].text \o <<32>> \o Head(paras)]_vars

(* C15 amended: the text of a merged entry is the text of the caption alone; the caption, a
   space and the continuation are its text_full. *)
C15_MergedTextIsCaption ==
    [][(pc = "run" /\ paras # <<>> /\ IsBody(Head(paras)) /\ buffer # <<>>)
       => (/\ results'[Len(results')].text = buffer[Len(buffer)].text
           /\ results'[Len(results')].text_full =
                  buffer[Len(buffer)].text \o <<32>> \o Head(paras))]_vars

(* two merged entries are in the output, the text of each shorter than its text_full *)
C15_Witness ==
    /\ Len(results) >= 2
    /\ \A k \in 1 .. Len(results) :
           IsMerged(results[k]) /\ Len(results[k].text) < Len(results[k].text_full)

(* C16: a config whose keywords are missing or invalid raises before any line is examined:
   no paragraph is taken, chapter, section and output stay as they were set up. *)
C16_ConfigErrorBeforeLines ==
    config # ConfigOK =>
        /\ hist = <<>>
        /\ chapter = None
        /\ section = None
        /\ results = <<>>
        /\ written = <<>>

(* C17: heading precedence: a paragraph is tested as chapter heading, then as section heading,
   then by is_valid and classify_type: one matching the chapter rule changes chapter only, also
   when it matches the section rule or is valid; one matching only the section rule changes
   section only, also when it is valid. *)
C17_HeadingPrecedence ==
    [][(pc = "run" /\ paras # <<>>)
       => IF Truthy(Rules[Head(paras)].chapter_title)
          THEN /\ chapter' = Rules[Head(paras)].chapter_title
               /\ UNCHANGED <<section, results, buffer>>
          ELSE IF Truthy(Rules[Head(paras)].section_title)
               THEN /\ section' = Rules[Head(paras)].section_title
                    /\ UNCHANGED <<chapter, results, buffer>>
               ELSE UNCHANGED <<chapter, section>>]_vars

(* a valid paragraph matching both heading rules and a valid one matching the section rule
   only were taken *)
C17_Witness ==
    /\ \E i \in 1 .. Len(hist) :
         /\ Truthy(Rules[hist[i]].chapter_title)
         /\ Truthy(Rules[hist[i]].section_title)
         /\ Rules[hist[i]].valid
         /\ chapter = hist[i]
         /\ section # hist[i]
    /\ \E j \in 1 .. Len(hist) :
         /\ ~Truthy(Rules[hist[j]].chapter_title)
         /\ Truthy(Rules[hist[j]].section_title)
         /\ Rules[hist[j]].valid
         /\ section = hist[j]
    /\ results = <<>>

(* C18: context at finalization: an entry is finalized with the chapter of the chapter heading
   taken last and the section of the section heading taken last (None without one), and
   chapter and section hold these values after every step. *)
C18_ContextAtFinalization ==
    [][/\ results' # results
          => (/\ results'[Len(results')].chapter = LastChapter(hist)
              /\ results'[Len(results')].section_title = LastSection(hist))
       /\ chapter' = LastChapter(hist')
       /\ section' = LastSection(hist')]_vars

(* two different chapter headings, then an entry with the chapter of the second *)
C18_Witness ==
    /\ \E i \in 1 .. Len(hist) : \E j \in (i + 1) .. Len(hist) :
         IsChapter(hist[i]) /\ IsChapter(hist[j]) /\ hist[i] # hist[j] /\ chapter = hist[j]
    /\ results # <<>>
    /\ results[Len(results)].chapter = chapter
    /\ results[Len(results)].section_title = None

(* C19: classifier precedence: classify_type returns one of the five types, by first match in
   the order definition, action keyword, figure reference, short text with a term keyword,
   explanation. *)
C19_ClassifierPrecedence ==
    pc = "returned" =>
        LET def == DefinitionRule(arg)
            act == ContainsAny(arg, ActionKeywords)
            fig == extract_figure(arg) # None
            term == Len(arg) <= 60 /\ ContainsAny(arg, TermKeywords)
        IN  /\ ret \in {TypeDefinition, TypeTradingLogic, TypeFigureCaption, TypeTerm,
                        TypeExplanation}
            /\ def => ret = TypeDefinition
            /\ (~def /\ act) => ret = TypeTradingLogic
            /\ ret = TypeFigureCaption <=> (fig /\ ~def /\ ~act)
            /\ ret = TypeTerm <=> (term /\ ~fig /\ ~def /\ ~act)
            /\ ret = TypeExplanation <=> (~term /\ ~fig /\ ~def /\ ~act)

(* a text with an action keyword and a figure reference, no definition, was classified *)
C19_Witness ==
    /\ pc = "returned"
    /\ ContainsAny(arg, ActionKeywords)
    /\ ContainsAny(arg, TermKeywords)
    /\ extract_figure(arg) # None
    /\ ~DefinitionRule(arg)
    /\ ret = TypeTradingLogic

(* C20 as claimed: a paragraph is pushed to the buffer, nothing appended, exactly when it matches
   no heading rule, is valid and is classified caption; a valid paragraph with a figure
   reference classified definition or trading logic is not buffered, and the entry it leads to
   records its figure reference. *)
C20_BufferEntryCondition ==
    [][(pc = "run" /\ paras # <<>>)
       => LET para == Head(paras)
              cand == /\ ~Truthy(Rules[para].chapter_title)
                      /\ ~Truthy(Rules[para].section_title)
                      /\ Rules[para].valid
          IN  /\ (/\ Len(buffer') = Len(buffer) + 1
                  /\ buffer'[Len(buffer')].text = para
                  /\ results' = results)
                 <=> (cand /\ Rules[para].ptype = TypeFigureCaption)
              /\ (/\ cand
                  /\ Rules[para].fig # None
                  /\ Rules[para].ptype \in {TypeDefinition, TypeTradingLogic})
                 => (/\ Len(buffer') <= Len(buffer)
                     /\ Len(results') = Len(results) + 1
                     /\ results'[Len(results')].figure = Rules[para].fig)]_vars

(* C20 amended: as claimed, but the figure reference of the paragraph is recorded in the entry
   only when the entry is standalone; a merged entry keeps the figure reference of the caption. *)
C20_BufferEntryFigure ==
    [][(pc = "run" /\ paras # <<>>)
       => LET para == Head(paras)
              cand == /\ ~Truthy(Rules[para].chapter_title)
                      /\ ~Truthy(Rules[para].section_title)
                      /\ Rules[para].valid
          IN  /\ (/\ Len(buffer') = Len(buffer) + 1
                  /\ buffer'[Len(buffer')].text = para
                  /\ results' = results)
                 <=> (cand /\ Rules[para].ptype = TypeFigureCaption)
              /\ (/\ cand
                  /\ Rules[para].fig # None
                  /\ Rules[para].ptype \in {TypeDefinition, TypeTradingLogic})
                 => (/\ Len(buffer') <= Len(buffer)
                     /\ Len(results') = Len(results) + 1
                     /\ results'[Len(results')].figure =
                            IF buffer = <<>> THEN Rules[para].fig
                            ELSE buffer[Len(buffer)].figure)]_vars

(* a trading-logic paragraph with a figure reference became a standalone entry, and one with
   another figure reference than the pending caption was merged *)
C20_Witness ==
    /\ Len(hist) >= 3
    /\ Len(results) >= 2
    /\ ~IsMerged(results[1])
    /\ results[1].type = TypeTradingLogic
    /\ results[1].figure # None
    /\ IsCaption(hist[Len(hist) - 1])
    /\ IsBody(hist[Len(hist)])
    /\ Rules[hist[Len(hist)]].fig # None
    /\ IsMerged(results[Len(results)])
    /\ results[Len(results)].figure # Rules[hist[Len(hist)]].fig

(* C21: is_valid returns false exactly when the length is outside 15 .. 500, or no keyword
   occurs, or the blocklist matches, or the text ends with the full-width colon, or it has
   fewer than two whitespace-separated tokens; it returns true in every other case. *)
C21_RejectionRule ==
    pc = "returned" =>
        /\ ret \in BOOLEAN
        /\ ret = FALSE <=>
               \/ Len(arg) < 15
               \/ Len(arg) > 500
               \/ \A k \in 1 .. Len(keywords) : ~Contains(arg, keywords[k])
               \/ \E k \in 1 .. Len(Blocklist) : Contains(arg, Blocklist[k])
               \/ arg[Len(arg)] = 65306
               \/ SplitCount(arg) < 2

(* a text of the least length, with a keyword, two tokens, no blocklisted word and no colon at
   its end was accepted *)
C21_Witness ==
    /\ pc = "returned"
    /\ Len(arg) = 15
    /\ ret = TRUE

(* the lines of ss joined by single spaces *)
RECURSIVE JoinSpace(_)
JoinSpace(ss) ==
    IF ss = <<>> THEN <<>>
    ELSE IF Len(ss) = 1 THEN Head(ss)
    ELSE Head(ss) \o <<32>> \o JoinSpace(Tail(ss))

(* the k-th smallest element of the set S of numbers, 0 for k = 0 *)
Nth(S, k) == IF k = 0 THEN 0 ELSE CHOOSE x \in S : Cardinality({y \in S : y <= x}) = k

(* the continuation paragraph of a merged entry: its text_full behind the caption and a space *)
Continuation(e) == SubSeq(e.text_full, Len(e.text) + 2, Len(e.text_full))

(* C22: dropped lines leave the state unchanged: a paragraph that is no heading and is rejected
   by is_valid changes none of chapter, section, buffer and output; blank lines of a page
   never reach the loop body and reading the page changes none of the four either. *)
C22_DroppedLinesFrame ==
    [][/\ (/\ pc = "run"
           /\ paras # <<>>
           /\ ~Truthy(Rules[Head(paras)].chapter_title)
           /\ ~Truthy(Rules[Head(paras)].section_title)
           /\ ~Rules[Head(paras)].valid)
          => UNCHANGED <<chapter, section, buffer, results>>
       /\ (pc = "run" /\ paras = <<>>)
          => (/\ UNCHANGED <<chapter, section, buffer>>
              /\ \A i \in 1 .. Len(paras') : strip(paras'[i]) # <<>>)]_vars

(* a caption, a rejected paragraph and a body paragraph of a block with a blank line were
   taken: the caption was merged with the body paragraph *)
C22_Witness ==
    /\ Len(hist) = 3
    /\ IsCaption(hist[1])
    /\ ~IsChapter(hist[2]) /\ ~IsSection(hist[2]) /\ ~Valid(hist[2])
    /\ hist[3] = ExplanationLine
    /\ Len(results) = 1
    /\ IsMerged(results[1])
    /\ results[1].text_full = hist[1] \o <<32>> \o hist[3]
    /\ buffer = <<>>

(* C23: the output is append-only: a step leaves it unchanged or appends one entry at its end,
   the entries already in it stay as they are. *)
C23_AppendOnly ==
    [][\/ results' = results
       \/ /\ Len(results') = Len(results) + 1
          /\ SubSeq(results', 1, Len(results)) = results]_vars

(* a standalone entry, a merged entry and a standalone entry with a window are in the output *)
C23_Witness ==
    /\ Len(results) = 3
    /\ ~IsMerged(results[1])
    /\ IsMerged(results[2])
    /\ ~IsMerged(results[3])
    /\ Len(results[3].context_window) = 2

(* C24: after any prefix of the input the output has one entry per paragraph taken that is no
   heading, is valid and is no caption; the merged entries are no more than the captions
   taken. *)
C24_OneEntryPerBody ==
    /\ Len(results) = Cardinality({i \in 1 .. Len(hist) : IsBody(hist[i])})
    /\ Cardinality({k \in 1 .. Len(results) : IsMerged(results[k])})
           <= Cardinality({i \in 1 .. Len(hist) : IsCaption(hist[i])})

(* a valid section heading, two captions and one body paragraph were taken: one entry, one
   caption left pending *)
C24_Witness ==
    /\ Len(hist) = 4
    /\ \E i \in 1 .. 4 : IsSection(hist[i]) /\ Rules[hist[i]].valid
    /\ Cardinality({i \in 1 .. 4 : IsCaption(hist[i])}) = 2
    /\ Len(results) = 1
    /\ Len(buffer) = 1

(* C25: the pending captions are a last-in-first-out stack: a caption is appended behind the
   pending ones, which stay; a continuation takes the caption appended last; after captions
   C1, C2 and body paragraphs P1, P2 the output is the merged entries of C2 with P1 and of C1
   with P2. *)
C25_BufferIsStack ==
    [][/\ (pc = "run" /\ paras # <<>> /\ IsCaption(Head(paras)))
          => (/\ Len(buffer') = Len(buffer) + 1
              /\ SubSeq(buffer', 1, Len(buffer)) = buffer
              /\ buffer'[Len(buffer')].text = Head(paras))
       /\ (pc = "run" /\ paras # <<>> /\ IsBody(Head(paras)) /\ buffer # <<>>)
          => (/\ buffer' = SubSeq(buffer, 1, Len(buffer) - 1)
              /\ results'[Len(results')].text = buffer[Len(buffer)].text)
       /\ (/\ Len(hist') = 4
           /\ IsCaption(hist'[1]) /\ IsCaption(hist'[2])
           /\ IsBody(hist'[3]) /\ IsBody(hist'[4]))
          => (/\ Len(results') = 2
              /\ results'[1].text_full = hist'[2] \o <<32>> \o hist'[3]
              /\ results'[2].text_full = hist'[1] \o <<32>> \o hist'[4]
              /\ buffer' = <<>>)]_vars

(* two different captions and two body paragraphs were taken, the second caption came out first *)
C25_Witness ==
    /\ Len(hist) = 4
    /\ IsCaption(hist[1]) /\ IsCaption(hist[2]) /\ hist[1] # hist[2]
    /\ IsBody(hist[3]) /\ IsBody(hist[4])
    /\ Len(results) = 2
    /\ results[1].text = hist[2]
    /\ results[2].text = hist[1]

(* C26: no context window has length 1: every window has length 0 or 2, and the entry
   finalized with one entry before it has an empty window. *)
C26_WindowNeverOne ==
    \A k \in 1 .. Len(results) :
        /\ Len(results[k].context_window) \in {0, 2}
        /\ k <= 2 => results[k].context_window = <<>>

(* three standalone entries: the second has an empty window, the third a window of two *)
C26_Witness ==
    /\ Len(results) >= 3
    /\ \A k \in 1 .. 3 : ~IsMerged(results[k])
    /\ results[2].context_window = <<>>
    /\ Len(results[3].context_window) = 2

(* C27: no continuation text reaches a context window: each element of a window is the text of
   one of the two entries before, a paragraph that was taken; for a merged entry that is the
   caption, neither its text_full nor its continuation paragraph; for a standalone entry it
   is a paragraph emitted standalone. *)
C27_WindowHoldsCaptionText ==
    \A n \in 1 .. Len(results) :
        LET w == results[n].context_window
        IN  \A i \in 1 .. Len(w) :
                LET e == results[n - Len(w) - 1 + i]
                IN  /\ w[i] = e.text
                    /\ \E j \in 1 .. Len(hist) : hist[j] = w[i]
                    /\ IF IsMerged(e)
                       THEN /\ IsCaption(w[i])
                            /\ w[i] # e.text_full
                            /\ w[i] # Continuation(e)
                       ELSE IsBody(w[i])

(* a standalone entry whose window holds the caption of the merged entry before it *)
C27_Witness ==
    \E n \in 3 .. Len(results) :
        /\ ~IsMerged(results[n])
        /\ Len(results[n].context_window) = 2
        /\ IsMerged(results[n - 1])
        /\ results[n].context_window[2] = results[n - 1].text
        /\ Len(results[n - 1].text) < Len(results[n - 1].text_full)

(* C28: every emitted paragraph passed the gates: the text of every entry, and the continuation
   paragraph of a merged entry, is not blank, matches neither heading rule and satisfies
   is_valid; so no entry's text satisfies the section rule. *)
C28_EmittedPassedGates ==
    \A k \in 1 .. Len(results) :
        LET passed(t) == /\ \E i \in 1 .. Len(t) : t[i] \notin Whitespace
                         /\ t \in Paragraphs
                         /\ Rules[t].chapter_title = None
                         /\ Rules[t].section_title = None
                         /\ Rules[t].valid
        IN  /\ passed(results[k].text)
            /\ IsMerged(results[k]) => passed(Continuation(results[k]))

(* a merged and a standalone entry are in the output after a rejected paragraph and a heading
   were taken *)
C28_Witness ==
    /\ Len(results) = 2
    /\ IsMerged(results[1])
    /\ ~IsMerged(results[2])
    /\ \E i \in 1 .. Len(hist) : IsChapter(hist[i]) \/ IsSection(hist[i])

(* C30: merge_lines loses and reorders nothing: the paragraphs are the space-joins of
   contiguous runs of the lines, the runs partition the lines of the call (those of one page)
   in their order; every paragraph but the last has at least max_len characters and the
   last is not empty. *)
C30_MergeLinesPartition ==
    pc = "returned" =>
        /\ \E S \in SUBSET (1 .. Len(arg)) :
               /\ Cardinality(S) = Len(ret)
               /\ arg # <<>> => Len(arg) \in S
               /\ \A k \in 1 .. Len(ret) :
                      ret[k] = JoinSpace(SubSeq(arg, Nth(S, k - 1) + 1, Nth(S, k)))
        /\ \A k \in 1 .. Len(ret) - 1 : Len(ret[k]) >= 120
        /\ \A k \in 1 .. Len(ret) : ret[k] # <<>>

(* three lines gave a paragraph of two lines that reached max_len and a shorter last one *)
C30_Witness ==
    /\ pc = "returned"
    /\ Len(arg) = 3
    /\ Len(ret) = 2
    /\ ret[1] = arg[1] \o <<32>> \o arg[2]
    /\ Len(ret[1]) = 120
    /\ ret[2] = arg[3]
    /\ Len(ret[2]) < 120

(* extract_data: the lines that led to an entry (standalone, or continuation of a caption), in
   order: the k-th of them led to the k-th entry of results *)
V4_Bodies == SelectSeq(hist, LAMBDA h : h.kind = "body")

(* C29: per-document isolation of extract_data: buffer, chapter and section start empty in
   each document, so the pending captions, the caption of a merged entry and the chapter and
   section of an entry come from lines of the entry's own document; every element of an
   entry's context_window is the text of an entry of the same document. *)
C29_DocumentIsolation ==
    /\ \A b \in 1 .. Len(buffer) :
           \E j \in 1 .. Len(hist) :
               hist[j].kind = "caption" /\ hist[j].doc = Len(docs) /\ hist[j].text = buffer[b].text
    /\ \A k \in 1 .. Len(results) :
           LET d == V4_Bodies[k].doc
               w == results[k].context_window
           IN  /\ IsMerged(results[k])
                  => \E j \in 1 .. Len(hist) :
                         /\ hist[j].kind = "caption"
                         /\ hist[j].doc = d
                         /\ hist[j].text = results[k].text
               /\ results[k].chapter # None
                  => \E j \in 1 .. Len(hist) :
                         /\ hist[j].kind = "chapter"
                         /\ hist[j].doc = d
                         /\ V4_Rules[hist[j].text].chapter_title = results[k].chapter
               /\ results[k].section_title # None
                  => \E j \in 1 .. Len(hist) :
                         /\ hist[j].kind = "section"
                         /\ hist[j].doc = d
                         /\ hist[j].text = results[k].section_title
               /\ \A i \in 1 .. Len(w) : V4_Bodies[k - Len(w) - 1 + i].doc = d
====
